---- MODULE Spec2Model ----
(***************************************************************************)
(* A model of two parts of zbus:                                           *)
(*   - zvariant/src/basic.rs: the Basic trait, which gives every basic     *)
(*     type its signature character, signature string and alignment;       *)
(*   - zbus_derive/src/lib.rs: the dbus_proxy attribute macro, which turns *)
(*     a trait declaration into a proxy type, and the members it emits.    *)
(* Characters are one-character strings, Rust strings that the code looks  *)
(* into (method names, signatures) are sequences of characters, and Rust   *)
(* strings that are only formatted and passed on are TLA+ strings.         *)
(***************************************************************************)
EXTENDS Integers, Sequences, FiniteSets, TLC

\* ------------------------------------------------------------------ bounds
\* Depth of nested references (&B, &&B, ...) the registry is queried at.
MaxRefDepth == 2
\* Number of directives in the attribute's argument list.
MaxArgs == 3
\* Number of items in the trait declaration.
MaxItems == 2
\* Number of typed parameters (beyond the receivers) in the whole trait.
MaxParams == 2

\* --------------------------------------------------------- Option helpers
None == <<>>
Some(x) == <<x>>
unwrap_or(o, d) == IF o = None THEN d ELSE o[1]

\* ======================================================================
\*                       zvariant/src/basic.rs
\* ======================================================================
\* A type is the sequence of its reference markers followed by its name:
\* <<"u8">>, <<"&", "str">>, <<"&", "&", "i8">>.
BaseTypes ==
    { "u8", "NonZeroU8", "i8", "NonZeroI8", "bool", "i16", "NonZeroI16",
      "u16", "NonZeroU16", "i32", "NonZeroI32", "u32", "NonZeroU32",
      "i64", "NonZeroI64", "u64", "NonZeroU64", "f32", "f64",
      "str", "String", "char" }

Formats == { "DBus", "GVariant" }

Ref(B) == <<"&">> \o B

RECURSIVE RefTypes(_)
RefTypes(d) ==
    IF d = 0 THEN { <<b>> : b \in BaseTypes }
    ELSE RefTypes(d - 1) \cup { Ref(B) : B \in RefTypes(d - 1) }

Types == RefTypes(MaxRefDepth)

RECURSIVE SIGNATURE_CHAR(_)

\* A plausible slip: i8 given the byte signature instead of i16's.
i8_SIGNATURE_CHAR_byte == "y"

\* impl Basic for i8: "No i8 type in D-Bus/GVariant, let's pretend it's i16".
i8_SIGNATURE_CHAR == SIGNATURE_CHAR(<<"i16">>)

SIGNATURE_CHAR(T) ==
    IF Head(T) = "&" THEN SIGNATURE_CHAR(Tail(T))
    ELSE CASE T[1] = "u8"         -> "y"
           [] T[1] = "NonZeroU8"  -> SIGNATURE_CHAR(<<"u8">>)
           [] T[1] = "i8"         -> i8_SIGNATURE_CHAR
           [] T[1] = "NonZeroI8"  -> SIGNATURE_CHAR(<<"i8">>)
           [] T[1] = "bool"       -> "b"
           [] T[1] = "i16"        -> "n"
           [] T[1] = "NonZeroI16" -> SIGNATURE_CHAR(<<"i16">>)
           [] T[1] = "u16"        -> "q"
           [] T[1] = "NonZeroU16" -> SIGNATURE_CHAR(<<"u16">>)
           [] T[1] = "i32"        -> "i"
           [] T[1] = "NonZeroI32" -> SIGNATURE_CHAR(<<"i32">>)
           [] T[1] = "u32"        -> "u"
           [] T[1] = "NonZeroU32" -> SIGNATURE_CHAR(<<"u32">>)
           [] T[1] = "i64"        -> "x"
           [] T[1] = "NonZeroI64" -> SIGNATURE_CHAR(<<"i64">>)
           [] T[1] = "u64"        -> "t"
           [] T[1] = "NonZeroU64" -> SIGNATURE_CHAR(<<"u64">>)
           [] T[1] = "f32"        -> SIGNATURE_CHAR(<<"f64">>)
           [] T[1] = "f64"        -> "d"
           [] T[1] = "str"        -> "s"
           [] T[1] = "String"     -> "s"
           [] T[1] = "char"       -> SIGNATURE_CHAR(<<"&", "str">>)

RECURSIVE SIGNATURE_STR(_)
SIGNATURE_STR(T) ==
    IF Head(T) = "&" THEN SIGNATURE_STR(Tail(T))
    ELSE CASE T[1] = "u8"         -> <<"y">>
           [] T[1] = "NonZeroU8"  -> SIGNATURE_STR(<<"u8">>)
           [] T[1] = "i8"         -> SIGNATURE_STR(<<"i16">>)
           [] T[1] = "NonZeroI8"  -> SIGNATURE_STR(<<"i8">>)
           [] T[1] = "bool"       -> <<"b">>
           [] T[1] = "i16"        -> <<"n">>
           [] T[1] = "NonZeroI16" -> SIGNATURE_STR(<<"i16">>)
           [] T[1] = "u16"        -> <<"q">>
           [] T[1] = "NonZeroU16" -> SIGNATURE_STR(<<"u16">>)
           [] T[1] = "i32"        -> <<"i">>
           [] T[1] = "NonZeroI32" -> SIGNATURE_STR(<<"i32">>)
           [] T[1] = "u32"        -> <<"u">>
           [] T[1] = "NonZeroU32" -> SIGNATURE_STR(<<"u32">>)
           [] T[1] = "i64"        -> <<"x">>
           [] T[1] = "NonZeroI64" -> SIGNATURE_STR(<<"i64">>)
           [] T[1] = "u64"        -> <<"t">>
           [] T[1] = "NonZeroU64" -> SIGNATURE_STR(<<"u64">>)
           [] T[1] = "f32"        -> SIGNATURE_STR(<<"f64">>)
           [] T[1] = "f64"        -> <<"d">>
           [] T[1] = "str"        -> <<"s">>
           [] T[1] = "String"     -> <<"s">>
           [] T[1] = "char"       -> SIGNATURE_STR(<<"&", "str">>)

\* A plausible slip: the format is ignored and the D-Bus alignment returned.
alignment_method_dbus_only(dbus_alignment, gvariant_alignment, format) ==
    dbus_alignment

\* alignment_method!(a) is alignment_method!(a, a); the second form matches
\* on the format.
alignment_method(dbus_alignment, gvariant_alignment, format) ==
    CASE format = "DBus"     -> dbus_alignment
      [] format = "GVariant" -> gvariant_alignment

RECURSIVE alignment(_, _)
alignment(T, format) ==
    IF Head(T) = "&" THEN alignment(Tail(T), format)
    ELSE CASE T[1] = "u8"         -> alignment_method(1, 1, format)
           [] T[1] = "NonZeroU8"  -> alignment_method(1, 1, format)
           [] T[1] = "i8"         ->
                alignment_method(alignment(<<"i16">>, "DBus"),
                                 alignment(<<"i16">>, "GVariant"), format)
           [] T[1] = "NonZeroI8"  ->
                alignment_method(alignment(<<"i16">>, "DBus"),
                                 alignment(<<"i16">>, "GVariant"), format)
           [] T[1] = "bool"       -> alignment_method(4, 4, format)
           [] T[1] = "i16"        -> alignment_method(2, 2, format)
           [] T[1] = "NonZeroI16" -> alignment_method(2, 2, format)
           [] T[1] = "u16"        -> alignment_method(2, 2, format)
           [] T[1] = "NonZeroU16" -> alignment_method(2, 2, format)
           [] T[1] = "i32"        -> alignment_method(4, 4, format)
           [] T[1] = "NonZeroI32" -> alignment_method(4, 4, format)
           [] T[1] = "u32"        -> alignment_method(4, 4, format)
           [] T[1] = "NonZeroU32" -> alignment_method(4, 4, format)
           [] T[1] = "i64"        -> alignment_method(8, 8, format)
           [] T[1] = "NonZeroI64" -> alignment_method(8, 8, format)
           [] T[1] = "u64"        -> alignment_method(8, 8, format)
           [] T[1] = "NonZeroU64" -> alignment_method(8, 8, format)
           [] T[1] = "f32"        ->
                alignment_method(alignment(<<"f64">>, "DBus"),
                                 alignment(<<"f64">>, "GVariant"), format)
           [] T[1] = "f64"        -> alignment_method(8, 8, format)
           [] T[1] = "str"        -> alignment_method(4, 1, format)
           [] T[1] = "String"     -> alignment_method(4, 1, format)
           [] T[1] = "char"       -> alignment_method(4, 1, format)

\* ======================================================================
\*                       zbus_derive/src/lib.rs
\* ======================================================================
\* ---------------------------------------------------------------- inputs
\* A directive of the attribute's argument list (syn::NestedMeta).  meta is
\* "NameValue" for `path = lit` and "Path" for a bare word; lit is the
\* literal's kind.
NameValue(path, lit, value) ==
    [meta |-> "NameValue", path |-> path, lit |-> lit, value |-> value]

Directives ==
    { NameValue("interface", "Str", "org.test.SomeIface"),
      NameValue("interface", "Int", "1"),
      NameValue("default_path", "Str", "/org/test/SomeObject"),
      NameValue("default_path", "Int", "2"),
      NameValue("default_service", "Str", "org.test.SomeService"),
      NameValue("default_service", "Int", "3"),
      NameValue("timeout", "Str", "10"),
      [meta |-> "Path", path |-> "interface", lit |-> "None", value |-> ""] }

\* A parameter of a method signature (syn::FnArg).
Receiver == [arg |-> "Receiver", pat |-> "self", ident |-> "self"]
Typed(pat, ident) == [arg |-> "Typed", pat |-> pat, ident |-> ident]

\* The identifiers of the typed parameters, by position; a parameter whose
\* pattern is the wildcard `_` has none.
ParamIdents == <<"a", "b", "c", "d">>
Pats == { "Ident", "Wild" }

RECURSIVE TypedLists(_)
TypedLists(n) ==
    IF n = 0 THEN { <<>> }
    ELSE TypedLists(n - 1) \cup
         { Append(l, Typed(p, IF p = "Ident" THEN ParamIdents[n] ELSE "_")) :
             l \in { x \in TypedLists(n - 1) : Len(x) = n - 1 }, p \in Pats }

\* Method-level attributes (utils::ItemAttribute).
Property == [attr |-> "Property", n |-> <<>>]
Name(n) == [attr |-> "Name", n |-> n]

introspect == <<"i", "n", "t", "r", "o", "s", "p", "e", "c", "t">>
set_a_p == <<"s", "e", "t", "_", "a", "_", "p">>
a_p == <<"a", "_", "p">>
set_q == <<"s", "e", "t", "_", "q">>

MethodNames == { introspect, set_a_p, a_p }
AttrLists == { <<>>, <<Property>>, <<Name(set_q)>>, <<Property, Name(set_q)>> }

Method(ident, attrs, inputs) ==
    [item |-> "Method", ident |-> ident, attrs |-> attrs, inputs |-> inputs]

\* A trait item that is not a method (an associated type or constant).
OtherItem ==
    [item |-> "Type", ident |-> <<"T">>, attrs |-> <<>>, inputs |-> <<>>]

\* The items with a method name of `names` and at most k typed parameters.
TraitItems(names, k) ==
    { Method(n, at, <<Receiver>> \o l) :
        n \in names, at \in AttrLists, l \in TypedLists(k) }
    \cup { OtherItem }

RECURSIVE SeqsUpTo(_, _)
SeqsUpTo(S, n) ==
    IF n = 0 THEN { <<>> }
    ELSE SeqsUpTo(S, n - 1) \cup
         { Append(l, x) : l \in { y \in SeqsUpTo(S, n - 1) : Len(y) = n - 1 },
                          x \in S }

RECURSIVE CountTyped(_)
CountTyped(its) ==
    IF its = <<>> THEN 0
    ELSE (IF Head(its).item = "Method" THEN Len(Head(its).inputs) - 1 ELSE 0)
         + CountTyped(Tail(its))

\* Rust rejects two members of one name, so a method can follow the items
\* `its` only under a name none of them has; MaxParams bounds the typed
\* parameters of the whole trait.
CanFollow(its) ==
    TraitItems(MethodNames \ { its[i].ident : i \in 1..Len(its) },
               MaxParams - CountTyped(its))

ArgLists == SeqsUpTo(Directives, MaxArgs)

\* The inputs the method-level properties are checked on: few directive
\* lists, and every trait within the bounds (see DeclareItem) ...
ArgListsFew ==
    { <<>>,
      <<NameValue("interface", "Str", "org.test.SomeIface"),
        NameValue("timeout", "Str", "10")>> }

\* ... and the inputs the directive-level properties are checked on: every
\* directive list within the bounds, few traits.
ItemListsFew ==
    { <<OtherItem, Method(a_p, <<Property>>, <<Receiver>>)>>,
      <<Method(set_a_p, <<Property>>, <<Receiver, Typed("Ident", "a")>>)>>,
      <<Method(a_p, <<Property>>, <<Receiver, Typed("Ident", "a")>>)>> }

\* ------------------------------------------------------------- utils.rs
Lower == <<"a", "e", "i", "n", "o", "p", "q", "r", "s", "t", "c">>
Upper == <<"A", "E", "I", "N", "O", "P", "Q", "R", "S", "T", "C">>

to_ascii_uppercase(ch) ==
    IF \E i \in 1..Len(Lower) : Lower[i] = ch
    THEN Upper[CHOOSE i \in 1..Len(Lower) : Lower[i] = ch]
    ELSE ch

RECURSIVE pascal_from(_, _)
pascal_from(s, capitalize) ==
    IF s = <<>> THEN <<>>
    ELSE IF Head(s) = "_" THEN pascal_from(Tail(s), TRUE)
    ELSE IF capitalize
         THEN <<to_ascii_uppercase(Head(s))>> \o pascal_from(Tail(s), FALSE)
         ELSE <<Head(s)>> \o pascal_from(Tail(s), FALSE)

\* Split on `_`, capitalize each segment, concatenate.
pascal_case(s) == pascal_from(s, TRUE)

\* The attributes of a method, as parse_item_attributes returns them.
parse_item_attributes(attrs) == attrs

\* ------------------------------------------------- dbus_proxy, per method
starts_with(s, prefix) ==
    Len(s) >= Len(prefix) /\ SubSeq(s, 1, Len(prefix)) = prefix

\* attrs.iter().any(|x| x.is_property())
is_property(attrs) == \E i \in 1..Len(attrs) : attrs[i].attr = "Property"

\* m.sig.inputs.len() > 1
has_inputs(m) == Len(m.inputs) > 1

\* attrs.iter().find_map(|x| match x { ItemAttribute::Name(n) => Some(n), .. })
find_map_name(attrs) ==
    IF \E i \in 1..Len(attrs) : attrs[i].attr = "Name"
    THEN Some(attrs[CHOOSE i \in 1..Len(attrs) :
                      /\ attrs[i].attr = "Name"
                      /\ \A j \in 1..(i - 1) : attrs[j].attr /= "Name"].n)
    ELSE None

set_prefix == <<"s", "e", "t", "_">>

\* A plausible slip: the assertion is left out.
assert_never_fails(m) == FALSE

\* assert!(method_name.starts_with("set_")) fails; it is evaluated only in
\* the closure of unwrap_or_else, that is when no name is given.
assert_fails(m) ==
    /\ find_map_name(parse_item_attributes(m.attrs)) = None
    /\ is_property(parse_item_attributes(m.attrs)) /\ has_inputs(m)
    /\ ~starts_with(m.ident, set_prefix)

\* A plausible slip: `set_` is stripped from every property, getters too.
wire_name_strip_any_property(m) ==
    unwrap_or(find_map_name(parse_item_attributes(m.attrs)),
              pascal_case(IF is_property(parse_item_attributes(m.attrs))
                             /\ starts_with(m.ident, set_prefix)
                          THEN SubSeq(m.ident, 5, Len(m.ident))
                          ELSE m.ident))

\* The `name` of lines 115-128, for a method the assertion lets through.
wire_name(m) ==
    unwrap_or(find_map_name(parse_item_attributes(m.attrs)),
              pascal_case(IF is_property(parse_item_attributes(m.attrs))
                             /\ has_inputs(m)
                          THEN SubSeq(m.ident, 5, Len(m.ident))
                          ELSE m.ident))

arg_ident(arg) ==
    IF arg.arg = "Typed" /\ arg.pat = "Ident" THEN Some(arg.ident) ELSE None

\* inputs.iter().filter_map(|arg| arg_ident(arg)).collect()
RECURSIVE filter_map_arg_ident(_)
filter_map_arg_ident(inputs) ==
    IF inputs = <<>> THEN <<>>
    ELSE arg_ident(Head(inputs)) \o filter_map_arg_ident(Tail(inputs))

Sig(m) == [ident |-> m.ident, inputs |-> m.inputs]

\* pub #sig { let reply = self.0.call(#method_name, &(#(#args),*))?; Ok(reply) }
gen_proxy_method_call(method_name, m) ==
    [sig |-> Sig(m),
     body |-> [op |-> "call", name |-> method_name,
               args |-> filter_map_arg_ident(m.inputs)]]

\* arg_ident(sig.inputs.last().unwrap()).unwrap() panics.
property_unwrap_fails(m) ==
    Len(m.inputs) > 1 /\ arg_ident(m.inputs[Len(m.inputs)]) = None

\* A plausible slip: the setter forwards its first parameter, not its last.
gen_proxy_property_first(property_name, m) ==
    IF Len(m.inputs) > 1
    THEN [sig |-> Sig(m),
          body |-> [op |-> "try_set", name |-> property_name,
                    args |-> <<unwrap_or(arg_ident(m.inputs[2]), "_")>>]]
    ELSE [sig |-> Sig(m),
          body |-> [op |-> "try_get", name |-> property_name, args |-> <<>>]]

\* pub #sig { self.0.try_set(#property_name, #value) }  or
\* pub #sig { self.0.try_get(#property_name) }
gen_proxy_property(property_name, m) ==
    IF Len(m.inputs) > 1
    THEN [sig |-> Sig(m),
          body |-> [op |-> "try_set", name |-> property_name,
                    args |-> <<arg_ident(m.inputs[Len(m.inputs)])[1]>>]]
    ELSE [sig |-> Sig(m),
          body |-> [op |-> "try_get", name |-> property_name, args |-> <<>>]]

\* pub fn introspect(&self) -> Result<String> { self.0.introspect() }
introspect_member ==
    [sig |-> [ident |-> introspect, inputs |-> <<Receiver>>],
     body |-> [op |-> "introspect", name |-> <<>>, args |-> <<>>]]

\* ------------------------------------------------- the generated members
\* What Transport answers: a value or an error.
Ok(v) == [ok |-> TRUE, v |-> v]
Err(e) == [ok |-> FALSE, v |-> e]
TransportResults == { Ok("reply"), Err("error") }

\* A plausible slip: a failed call is tried a second time.
member_body_retry(member, r) ==
    LET call == [op |-> member.body.op, name |-> member.body.name,
                 args |-> member.body.args] IN
    [calls |-> IF r.ok THEN <<call>> ELSE <<call, call>>,
     ret |-> r]

\* One run of a generated member's body, Transport answering r: the calls it
\* makes on the inner zbus::Proxy and what it returns.  The `?` of a remote
\* call returns the error, and Ok(reply) rewraps the value.
member_body(member, r) ==
    [calls |-> << [op |-> member.body.op, name |-> member.body.name,
                   args |-> member.body.args] >>,
     ret |-> IF member.body.op = "call"
             THEN (IF r.ok THEN Ok(r.v) ELSE Err(r.v))
             ELSE r]

\* ======================================================================
\*                              state
\* ======================================================================
VARIABLES
    query,          \* the last question put to the Basic trait, and its answers
    args,           \* the attribute's arguments (the macro's `attr`)
    ident,          \* input.ident, the trait's name
    items,          \* input.items
    pc,             \* "decl" while the trait is written, then where dbus_proxy
                    \* is: "args", "items", "done", "panicked"
    arg_i,          \* the next directive of `for arg in args`
    iface_name,     \* Option<String>
    default_path,   \* Option<String>
    default_service,\* Option<String>
    resolved,       \* name, default_path, default_service of lines 100-102
    item_i,         \* the next item of `for i in input.items.iter()`
    has_introspect_method,
    methods,        \* the members generated so far
    proxy_impl,     \* None, or Some of the emitted proxy type
    panic,          \* the message of the panic that ended the expansion
    proxy,          \* None, or Some of the instance that new() made
    invoked,        \* the member of the last invocation (0: none yet)
    calls,          \* the Transport calls of the last invocation
    answer,         \* what Transport answered to the last call (None: no call)
    ret             \* what the last constructor or member call returned

input_vars == <<args, ident, items>>
macro_vars ==
    <<pc, arg_i, iface_name, default_path, default_service, resolved, item_i,
      has_introspect_method, methods, proxy_impl, panic>>
run_vars == <<proxy, invoked, calls, answer, ret>>
vars == <<query, input_vars, macro_vars, run_vars>>

\* ---------------------------------------------------------- Basic queries
NoQuery ==
    [T |-> <<>>, format |-> "", sig_char |-> "", sig_str |-> <<>>, align |-> 0]

\* T::SIGNATURE_CHAR, T::SIGNATURE_STR and T::alignment(format).
Query ==
    /\ \E T \in Types, format \in Formats :
         query' = [T |-> T, format |-> format,
                   sig_char |-> SIGNATURE_CHAR(T),
                   sig_str |-> SIGNATURE_STR(T),
                   align |-> alignment(T, format)]
    /\ UNCHANGED <<input_vars, macro_vars, run_vars>>

\* ------------------------------------------------------------- dbus_proxy
\* The locals of lines 51-56, before the first directive is looked at; at
\* "decl" the trait is still being written, at "args" the macro runs.
MacroStart(as, id, its, at) ==
    /\ args = as /\ ident = id /\ items = its
    /\ pc = at /\ arg_i = 1
    /\ iface_name = None /\ default_path = None /\ default_service = None
    /\ resolved = None
    /\ item_i = 1 /\ has_introspect_method = FALSE
    /\ methods = <<>> /\ proxy_impl = None /\ panic = ""
    /\ proxy = None /\ invoked = 0 /\ calls = <<>> /\ answer = None
    /\ ret = None

\* The programmer adds one item to the trait.
DeclareItem ==
    /\ pc = "decl" /\ Len(items) < MaxItems
    /\ \E x \in CanFollow(items) : items' = Append(items, x)
    /\ UNCHANGED <<query, args, ident, macro_vars, run_vars>>

\* The compiler calls dbus_proxy on the attribute and the trait.
Expand ==
    /\ pc = "decl"
    /\ pc' = "args"
    /\ UNCHANGED <<query, input_vars, arg_i, iface_name, default_path,
                   default_service, resolved, item_i, has_introspect_method,
                   methods, proxy_impl, panic, run_vars>>

\* A plausible slip: a directive of an unknown key is ignored.
arg_panic_ignore_unknown(arg) ==
    IF arg.meta = "NameValue"
    THEN IF arg.path = "interface"
         THEN (IF arg.lit = "Str" THEN "" ELSE "Invalid interface argument")
         ELSE IF arg.path = "default_path"
         THEN (IF arg.lit = "Str" THEN "" ELSE "Invalid path argument")
         ELSE IF arg.path = "default_service"
         THEN (IF arg.lit = "Str" THEN "" ELSE "Invalid service argument")
         ELSE ""
    ELSE "Unknown attribute"

\* The panic one directive raises, "" when it raises none (lines 67-92).
arg_panic(arg) ==
    IF arg.meta = "NameValue"
    THEN IF arg.path = "interface"
         THEN (IF arg.lit = "Str" THEN "" ELSE "Invalid interface argument")
         ELSE IF arg.path = "default_path"
         THEN (IF arg.lit = "Str" THEN "" ELSE "Invalid path argument")
         ELSE IF arg.path = "default_service"
         THEN (IF arg.lit = "Str" THEN "" ELSE "Invalid service argument")
         ELSE "Unsupported argument"
    ELSE "Unknown attribute"

\* One iteration of `for arg in args` that stores a value.
ParseArg ==
    /\ pc = "args" /\ arg_i <= Len(args)
    /\ arg_panic(args[arg_i]) = ""
    /\ LET nv == args[arg_i] IN
         /\ iface_name' =
              IF nv.path = "interface" THEN Some(nv.value) ELSE iface_name
         /\ default_path' =
              IF nv.path = "default_path" THEN Some(nv.value) ELSE default_path
         /\ default_service' =
              IF nv.path = "default_service" THEN Some(nv.value)
              ELSE default_service
    /\ arg_i' = arg_i + 1
    /\ UNCHANGED <<query, input_vars, pc, resolved, item_i,
                   has_introspect_method, methods, proxy_impl, panic, run_vars>>

\* One iteration of `for arg in args` that panics.
ArgPanic ==
    /\ pc = "args" /\ arg_i <= Len(args)
    /\ arg_panic(args[arg_i]) /= ""
    /\ panic' = arg_panic(args[arg_i])
    /\ pc' = "panicked"
    /\ UNCHANGED <<query, input_vars, arg_i, iface_name, default_path,
                   default_service, resolved, item_i, has_introspect_method,
                   methods, proxy_impl, run_vars>>

\* A plausible slip: the service falls back to the default interface name
\* instead of the resolved one.
resolve_service_from_ident(iface, path, service, id) ==
    [name |-> unwrap_or(iface, "org.freedesktop." \o id),
     default_path |-> unwrap_or(path, "/org/freedesktop/" \o id),
     default_service |-> unwrap_or(service, "org.freedesktop." \o id)]

\* Lines 100-102.
resolve(iface, path, service, id) ==
    LET name == unwrap_or(iface, "org.freedesktop." \o id) IN
    [name |-> name,
     default_path |-> unwrap_or(path, "/org/freedesktop/" \o id),
     default_service |-> unwrap_or(service, name)]

\* The directives are done: the trait is parsed and the names resolved
\* (lines 96-103).
ParseTrait ==
    /\ pc = "args" /\ arg_i > Len(args)
    /\ resolved' = Some(resolve(iface_name, default_path, default_service, ident))
    /\ pc' = "items"
    /\ UNCHANGED <<query, input_vars, arg_i, iface_name, default_path,
                   default_service, item_i, has_introspect_method, methods,
                   proxy_impl, panic, run_vars>>

\* One iteration of the loop over the items, at an item that is no method.
SkipItem ==
    /\ pc = "items" /\ item_i <= Len(items)
    /\ items[item_i].item /= "Method"
    /\ item_i' = item_i + 1
    /\ UNCHANGED <<query, input_vars, pc, arg_i, iface_name, default_path,
                   default_service, resolved, has_introspect_method, methods,
                   proxy_impl, panic, run_vars>>

\* The panic one method raises, "" when it raises none (lines 112-133).
method_panic(m) ==
    IF assert_fails(m)
    THEN "assertion failed: method_name.starts_with(set_)"
    ELSE IF is_property(parse_item_attributes(m.attrs)) /\ property_unwrap_fails(m)
    THEN "called Option::unwrap() on a None value"
    ELSE ""

\* The member generated for one method (lines 129-133).
gen_member(m) ==
    IF is_property(parse_item_attributes(m.attrs))
    THEN gen_proxy_property(wire_name(m), m)
    ELSE gen_proxy_method_call(wire_name(m), m)

\* One iteration of the loop over the items, at a method that is generated.
GenMethod ==
    /\ pc = "items" /\ item_i <= Len(items)
    /\ items[item_i].item = "Method"
    /\ method_panic(items[item_i]) = ""
    /\ has_introspect_method' =
         (has_introspect_method \/ items[item_i].ident = introspect)
    /\ methods' = Append(methods, gen_member(items[item_i]))
    /\ item_i' = item_i + 1
    /\ UNCHANGED <<query, input_vars, pc, arg_i, iface_name, default_path,
                   default_service, resolved, proxy_impl, panic, run_vars>>

\* One iteration of the loop over the items, at a method that panics.
MethodPanic ==
    /\ pc = "items" /\ item_i <= Len(items)
    /\ items[item_i].item = "Method"
    /\ method_panic(items[item_i]) /= ""
    /\ has_introspect_method' =
         (has_introspect_method \/ items[item_i].ident = introspect)
    /\ panic' = method_panic(items[item_i])
    /\ pc' = "panicked"
    /\ UNCHANGED <<query, input_vars, arg_i, iface_name, default_path,
                   default_service, resolved, item_i, methods, proxy_impl,
                   run_vars>>

\* A plausible slip: introspect is added whatever the trait declares.
all_methods_always(ms, has_introspect) == Append(ms, introspect_member)

\* The members of the emitted impl (lines 138-144).
all_methods(ms, has_introspect) ==
    IF ~has_introspect THEN Append(ms, introspect_member) ELSE ms

\* The items are done: introspect is added when missing and the proxy type
\* is emitted (lines 138-175).
Emit ==
    /\ pc = "items" /\ item_i > Len(items)
    /\ proxy_impl' =
         Some([proxy_name |-> ident \o "Proxy",
               new |-> <<resolved[1].default_service,
                         resolved[1].default_path, resolved[1].name>>,
               methods |-> all_methods(methods, has_introspect_method)])
    /\ pc' = "done"
    /\ UNCHANGED <<query, input_vars, arg_i, iface_name, default_path,
                   default_service, resolved, item_i, has_introspect_method,
                   methods, panic, run_vars>>

\* ------------------------------------------------------ the emitted proxy
\* <Name>Proxy::new(conn): Ok(Self(Proxy::new(conn, service, path, name)?)).
ProxyNew ==
    /\ pc = "done"
    /\ \E r \in TransportResults :
         /\ IF r.ok
            THEN /\ proxy' = Some([destination |-> proxy_impl[1].new[1],
                                   path |-> proxy_impl[1].new[2],
                                   interface |-> proxy_impl[1].new[3]])
                 /\ ret' = Some(Ok("Self"))
            ELSE /\ proxy' = None
                 /\ ret' = Some(r)
         /\ answer' = Some(r)
    /\ invoked' = 0 /\ calls' = <<>>
    /\ UNCHANGED <<query, input_vars, macro_vars>>

\* A call of the i-th generated member on the instance, Transport answering r.
CallMember ==
    /\ pc = "done" /\ proxy /= None
    /\ \E i \in 1..Len(proxy_impl[1].methods), r \in TransportResults :
         /\ invoked' = i
         /\ calls' = member_body(proxy_impl[1].methods[i], r).calls
         /\ ret' = Some(member_body(proxy_impl[1].methods[i], r).ret)
         /\ answer' = Some(r)
    /\ UNCHANGED <<query, input_vars, macro_vars, proxy>>

\* ---------------------------------------------------------- specifications
\* The Basic trait, asked about every type and format.
InitBasic ==
    /\ query = NoQuery
    /\ MacroStart(<<>>, "Foo", <<>>, "idle")

NextBasic == Query

SpecBasic == InitBasic /\ [][NextBasic]_vars

\* dbus_proxy and the proxy it emits.
NextMacro ==
    \/ ParseArg \/ ArgPanic \/ ParseTrait
    \/ SkipItem \/ GenMethod \/ MethodPanic \/ Emit
    \/ ProxyNew \/ CallMember

\* dbus_proxy on every trait within the bounds.
Init ==
    /\ query = NoQuery
    /\ \E as \in ArgListsFew : MacroStart(as, "Foo", <<>>, "decl")

Next == DeclareItem \/ Expand \/ NextMacro

Spec == Init /\ [][Next]_vars

\* dbus_proxy on every directive list within the bounds.
InitArgs ==
    /\ query = NoQuery
    /\ \E as \in ArgLists, id \in {"Foo", "Bar"}, its \in ItemListsFew :
         MacroStart(as, id, its, "args")

SpecArgs == InitArgs /\ [][NextMacro]_vars

\* ======================================================================
\*                            properties
\* ======================================================================
\* The type under the reference markers of T.
Base(T) == T[Len(T)]

Queried == query.T /= <<>>

\* The alignment table of the design, for the types with an entry of their own.
TableTypes ==
    { "u8", "bool", "i16", "u16", "i32", "u32", "i64", "u64", "f64",
      "str", "String" }

TableAlign(b, format) ==
    CASE b = "u8" -> 1
      [] b = "bool" -> 4
      [] b \in { "i16", "u16" } -> 2
      [] b \in { "i32", "u32" } -> 4
      [] b \in { "i64", "u64", "f64" } -> 8
      [] b \in { "str", "String" } -> IF format = "DBus" THEN 4 ELSE 1

TextLike == { "str", "String", "char" }

\* C8: for every type and both formats, SIGNATURE_STR is the one-character
\* string of SIGNATURE_CHAR, the alignment is the table's (1 for u8, 4 for
\* bool, 2, 4 and 8 for the 16-, 32- and 64-bit integers, 8 for f64, and for
\* text 4 in D-Bus and 1 in GVariant), it is one of 1, 2, 4, 8, and only the
\* text-like types have an alignment that differs between the two formats.
C8_Table ==
    Queried =>
        /\ query.sig_str = <<query.sig_char>>
        /\ query.align \in { 1, 2, 4, 8 }
        /\ Base(query.T) \in TableTypes =>
               query.align = TableAlign(Base(query.T), query.format)
        /\ (alignment(query.T, "DBus") /= alignment(query.T, "GVariant"))
               <=> Base(query.T) \in TextLike

C8_Witness ==
    /\ query.T = <<"&", "str">> /\ query.format = "GVariant"
    /\ query.align = 1 /\ query.sig_str = <<"s">>

\* What a delegating type delegates to: &B to B, i8 to i16, f32 to f64, char
\* and String to str, a non-zero integer to its base integer.
DelegateOf(T) ==
    IF Head(T) = "&" THEN Tail(T)
    ELSE CASE T[1] = "i8" -> <<"i16">>
           [] T[1] = "f32" -> <<"f64">>
           [] T[1] = "char" -> <<"str">>
           [] T[1] = "String" -> <<"str">>
           [] T[1] = "NonZeroU8" -> <<"u8">>
           [] T[1] = "NonZeroI8" -> <<"i8">>
           [] T[1] = "NonZeroI16" -> <<"i16">>
           [] T[1] = "NonZeroU16" -> <<"u16">>
           [] T[1] = "NonZeroI32" -> <<"i32">>
           [] T[1] = "NonZeroU32" -> <<"u32">>
           [] T[1] = "NonZeroI64" -> <<"i64">>
           [] T[1] = "NonZeroU64" -> <<"u64">>
           [] OTHER -> T

Answers(T, format) ==
    <<SIGNATURE_CHAR(T), SIGNATURE_STR(T), alignment(T, format)>>

\* C9: a delegating type answers as the type it delegates to, in both
\* formats: i8 as i16, f32 as f64, char as str, a non-zero integer as its
\* base (NonZeroI8 as i8 and so as i16), &B as B, and String as str.
C9_Delegation ==
    Queried =>
        /\ <<query.sig_char, query.sig_str, query.align>>
               = Answers(DelegateOf(query.T), query.format)
        /\ Base(query.T) \in { "i8", "NonZeroI8" } =>
               <<query.sig_char, query.sig_str, query.align>>
                   = Answers(<<"i16">>, query.format)

C9_Witness ==
    /\ query.T = <<"&", "NonZeroI8">>
    /\ query.sig_char = "n" /\ query.align = 2

\* ------------------------------------------------------------- directives
HasDirective(key) == \E i \in 1..Len(args) : args[i].path = key

\* The value the declaration gives for `key` (its last directive of that key).
Override(key) ==
    args[CHOOSE i \in 1..Len(args) :
           /\ args[i].path = key
           /\ \A j \in (i + 1)..Len(args) : args[j].path /= key].value

ExpectedName ==
    IF HasDirective("interface") THEN Override("interface")
    ELSE "org.freedesktop." \o ident

ExpectedPath ==
    IF HasDirective("default_path") THEN Override("default_path")
    ELSE "/org/freedesktop/" \o ident

ExpectedService ==
    IF HasDirective("default_service") THEN Override("default_service")
    ELSE ExpectedName

\* C1: the interface name is the `interface` override, else
\* org.freedesktop.<N>; the path is the `default_path` override, else
\* /org/freedesktop/<N>; the service is the `default_service` override, else
\* the resolved interface name; and new() binds the proxy to this triple.
C1_Resolution ==
    /\ resolved /= None =>
         /\ resolved[1].name = ExpectedName
         /\ resolved[1].default_path = ExpectedPath
         /\ resolved[1].default_service = ExpectedService
    /\ (resolved /= None /\ args = <<>> /\ ident = "Foo") =>
         resolved[1] = [name |-> "org.freedesktop.Foo",
                        default_path |-> "/org/freedesktop/Foo",
                        default_service |-> "org.freedesktop.Foo"]
    /\ proxy /= None =>
         proxy[1] = [destination |-> ExpectedService, path |-> ExpectedPath,
                     interface |-> ExpectedName]

C1_Witness ==
    /\ proxy /= None
    /\ HasDirective("interface") /\ ~HasDirective("default_service")
    /\ proxy[1].destination = "org.test.SomeIface"
    /\ proxy[1].path = "/org/freedesktop/Bar"

Recognized(arg) ==
    /\ arg.meta = "NameValue"
    /\ arg.path \in { "interface", "default_path", "default_service" }
    /\ arg.lit = "Str"

\* C7: with a directive of an unknown key or of a value that is no string
\* literal, wherever it stands and whatever the others and the methods are,
\* the expansion never gets past the directives: the trait is not processed
\* and no proxy type is produced; with recognized string-valued directives
\* only, the expansion never fails at the directives.
C7_DirectiveErrors ==
    /\ (\E i \in 1..Len(args) : ~Recognized(args[i])) =>
         /\ pc \in { "args", "panicked" }
         /\ resolved = None /\ item_i = 1 /\ methods = <<>>
         /\ proxy_impl = None /\ proxy = None
    /\ pc = "args" => \A j \in 1..(arg_i - 1) : Recognized(args[j])
    /\ (\A i \in 1..Len(args) : Recognized(args[i])) =>
         ~(pc = "panicked" /\ resolved = None)

C7_Witness ==
    /\ pc = "panicked" /\ panic = "Unsupported argument"
    /\ arg_i = 2 /\ Recognized(args[1]) /\ args[2].path = "timeout"
    /\ items = <<Method(set_a_p, <<Property>>, <<Receiver, Typed("Ident", "a")>>)>>
    /\ proxy_impl = None

\* ---------------------------------------------------------------- methods
IsMethod(x) == x.item = "Method"

\* The declared methods, in order; the k-th generated member comes from the
\* k-th of them.
Declared == SelectSeq(items, IsMethod)

IsProp(m) == \E i \in 1..Len(m.attrs) : m.attrs[i] = Property
HasName(m) == \E i \in 1..Len(m.attrs) : m.attrs[i].attr = "Name"
NameOf(m) == m.attrs[CHOOSE i \in 1..Len(m.attrs) : m.attrs[i].attr = "Name"].n

\* The parameters beyond the receiver.
Params(m) == Tail(m.inputs)
LastParam(m) == m.inputs[Len(m.inputs)]

HasSetPrefix(n) ==
    Len(n) >= 4 /\ n[1] = "s" /\ n[2] = "e" /\ n[3] = "t" /\ n[4] = "_"

\* The capitalized word-joined forms, written out.
Capitalized(n) ==
    CASE n = introspect -> <<"I", "n", "t", "r", "o", "s", "p", "e", "c", "t">>
      [] n = set_a_p -> <<"S", "e", "t", "A", "P">>
      [] n = a_p -> <<"A", "P">>
      [] OTHER -> <<>>

\* The same with the leading `set_` removed first.
CapitalizedSetter(n) ==
    CASE n = set_a_p -> <<"A", "P">>
      [] OTHER -> <<>>

ExpectedWire(m) ==
    IF HasName(m) THEN NameOf(m)
    ELSE IF IsProp(m) /\ Len(Params(m)) > 0 THEN CapitalizedSetter(m.ident)
    ELSE Capitalized(m.ident)

TransportCall(op, name, payload) == [op |-> op, name |-> name, args |-> payload]

\* The member of the last call comes from a declared method.
InvokedDeclared == pc = "done" /\ invoked \in 1..Len(Declared)

\* C2: a call of the member of a method not marked `property` makes exactly
\* one Transport call, to the method's wire name, with all the declared
\* parameters beyond the receiver, in order, as payload, and returns what
\* Transport answered, error included.
C2_AllParameters ==
    (InvokedDeclared /\ ~IsProp(Declared[invoked])) =>
        LET m == Declared[invoked] IN
        /\ calls = << TransportCall("call", ExpectedWire(m),
                          [k \in 1..Len(Params(m)) |-> Params(m)[k].ident]) >>
        /\ ret = answer

\* C3: a call of the member of a `property` method with one parameter makes
\* exactly one Transport set call with the wire name and that argument, with
\* none it makes exactly one get call with the wire name; no other call is
\* made, nothing is retried, and what Transport answered is returned.
C3_Property ==
    (InvokedDeclared /\ IsProp(Declared[invoked])) =>
        LET m == Declared[invoked] IN
        /\ Len(Params(m)) = 1 =>
             calls = << TransportCall("try_set", ExpectedWire(m),
                                      <<Params(m)[1].ident>>) >>
        /\ Len(Params(m)) = 0 =>
             calls = << TransportCall("try_get", ExpectedWire(m), <<>>) >>
        /\ ret = answer

C3_Witness ==
    /\ InvokedDeclared /\ IsProp(Declared[invoked])
    /\ Len(Params(Declared[invoked])) = 1
    /\ calls = << TransportCall("try_set", <<"A", "P">>, <<"a">>) >>
    /\ ret = Some(Err("error"))

\* C4: the wire name of a member is the `name` override, unchanged, when
\* there is one; else the capitalized word-joined method name, the leading
\* `set_` being removed first for a setter only (a getter set_a_p is SetAP).
\* A getter a_p and a setter set_a_p get the same wire name.
C4_WireName ==
    /\ \A k \in 1..Len(methods) :
         methods[k].body.name = ExpectedWire(Declared[k])
    /\ \A j, k \in 1..Len(methods) :
         ( /\ Declared[j].ident = a_p /\ IsProp(Declared[j])
           /\ Len(Params(Declared[j])) = 0 /\ ~HasName(Declared[j])
           /\ Declared[k].ident = set_a_p /\ IsProp(Declared[k])
           /\ Len(Params(Declared[k])) > 0 /\ ~HasName(Declared[k]) )
         => methods[j].body.name = methods[k].body.name
    /\ pc = "done" =>
         \A k \in 1..Len(Declared) :
             proxy_impl[1].methods[k].body.name = ExpectedWire(Declared[k])

C4_Witness ==
    /\ pc = "done" /\ Len(Declared) = 2
    /\ Declared[1] = Method(set_a_p, <<Property>>, <<Receiver>>)
    /\ proxy_impl[1].methods[1].body =
           [op |-> "try_get", name |-> <<"S", "e", "t", "A", "P">>, args |-> <<>>]
    /\ Declared[2].ident = a_p /\ ~IsProp(Declared[2]) /\ HasName(Declared[2])
    /\ proxy_impl[1].methods[2].body.name = set_q

\* A setter-shaped property method whose name does not begin with `set_`.
BadSetter(m) ==
    IsMethod(m) /\ IsProp(m) /\ Len(Params(m)) > 0 /\ ~HasSetPrefix(m.ident)

AssertMessage == "assertion failed: method_name.starts_with(set_)"

DeclaresIntrospect == \E k \in 1..Len(Declared) : Declared[k].ident = introspect

\* C6: an emitted proxy has exactly one member named introspect.  Without a
\* declared method of that name it is the added one, which calls Transport's
\* introspect and returns its answer, and the members are the declared
\* methods plus one; with one (property or not, renamed or not) nothing is
\* added and the members are the declared methods.
C6_Introspect ==
    pc = "done" =>
        LET ms == proxy_impl[1].methods
            n == Len(Declared)
        IN  /\ Cardinality({ k \in 1..Len(ms) : ms[k].sig.ident = introspect }) = 1
            /\ ~DeclaresIntrospect =>
                 /\ Len(ms) = n + 1
                 /\ ms[n + 1].body.op = "introspect"
                 /\ invoked = n + 1 =>
                      /\ calls = << TransportCall("introspect", <<>>, <<>>) >>
                      /\ ret = answer
            /\ DeclaresIntrospect =>
                 /\ Len(ms) = n
                 /\ \A k \in 1..n :
                      /\ ms[k].sig = [ident |-> Declared[k].ident,
                                      inputs |-> Declared[k].inputs]
                      /\ ms[k].body.op \in { "call", "try_get", "try_set" }

C6_Witness ==
    /\ pc = "done" /\ Len(Declared) = 2 /\ Len(proxy_impl[1].methods) = 2
    /\ Declared[1] = Method(introspect, <<Property, Name(set_q)>>, <<Receiver>>)
    /\ invoked = 1
    /\ calls = << TransportCall("try_get", set_q, <<>>) >>

\* A property method with two or more parameters beyond the receiver.
ManyParams(m) == IsMethod(m) /\ IsProp(m) /\ Len(Params(m)) >= 2

\* What C10 says of the members: a property member is a getter with no
\* parameter and a setter with any; a setter of two or more parameters has
\* the setter's wire name and forwards its last parameter only, in one call.
C10_Members ==
    /\ \A k \in 1..Len(methods) :
         IsProp(Declared[k]) =>
             methods[k].body.op =
                 IF Len(Params(Declared[k])) = 0 THEN "try_get" ELSE "try_set"
    /\ \A k \in 1..Len(methods) :
         ManyParams(Declared[k]) =>
             methods[k].body =
                 [op |-> "try_set", name |-> ExpectedWire(Declared[k]),
                  args |-> <<LastParam(Declared[k]).ident>>]
    /\ (InvokedDeclared /\ ManyParams(Declared[invoked])) =>
         /\ calls = << TransportCall("try_set", ExpectedWire(Declared[invoked]),
                                     <<LastParam(Declared[invoked]).ident>>) >>
         /\ ret = answer

\* The expansion has panicked at a property method of two or more parameters.
RejectedManyParams ==
    pc = "panicked" /\ resolved /= None /\ ManyParams(items[item_i])

\* C10 as stated: a property method of two or more parameters is rejected
\* only for a name that lacks `set_` without an override.
C10_Original ==
    /\ C10_Members
    /\ RejectedManyParams =>
         (~HasName(items[item_i]) /\ ~HasSetPrefix(items[item_i].ident))

\* C10 as amended: it is rejected only for a name that lacks `set_` without an
\* override, or for a last parameter that is not bound to an identifier; and
\* no member is generated for one whose last parameter is not.
C10_Amended ==
    /\ C10_Members
    /\ RejectedManyParams =>
         \/ (~HasName(items[item_i]) /\ ~HasSetPrefix(items[item_i].ident))
         \/ LastParam(items[item_i]).pat /= "Ident"
    /\ \A k \in 1..Len(methods) :
         ManyParams(Declared[k]) => LastParam(Declared[k]).pat = "Ident"

C10_Witness ==
    /\ InvokedDeclared
    /\ Declared[invoked] =
           Method(set_a_p, <<Property>>,
                  <<Receiver, Typed("Ident", "a"), Typed("Ident", "b")>>)
    /\ calls = << TransportCall("try_set", <<"A", "P">>, <<"b">>) >>

====
